---------------------------- MODULE Spec2Model ----------------------------
(***************************************************************************)
(* A model of arc_summary.go: the numeric formatters (fBytes, fHits,       *)
(* fPerc), the statistics extractor (cleanProcLine, procSection), the      *)
(* section registry (isLegalSection) and the control flow of main.         *)
(*                                                                         *)
(* Go strings are TLA+ strings.  uint64 values are exact naturals kept as  *)
(* little-endian sequences of 15-bit limbs; float64 values are records     *)
(* [neg, m, e] standing for (-1)^neg * m * 2^e with m rounded to 53 bits   *)
(* (round to nearest, ties to even), as IEEE 754 binary64 does.            *)
(***************************************************************************)
EXTENDS Integers, Sequences, FiniteSets, TLC

(***************************************************************************)
(* Exact naturals.                                                         *)
(***************************************************************************)
Base == 2^15
LimbBits == 3 * 5

RECURSIVE BNorm(_)
BNorm(x) ==
  IF x = <<>> THEN x
  ELSE IF x[Len(x)] = 0 THEN BNorm(SubSeq(x, 1, Len(x) - 1)) ELSE x

RECURSIVE BFromInt(_)
BFromInt(n) ==
  IF n = 0 THEN <<>> ELSE <<n % Base>> \o BFromInt(n \div Base)

RECURSIVE BToInt(_)
BToInt(x) ==
  IF x = <<>> THEN 0 ELSE x[1] + Base * BToInt(Tail(x))

\* x * m + c for small m and c
RECURSIVE BMulAddRec(_, _, _)
BMulAddRec(x, m, c) ==
  IF x = <<>> THEN BFromInt(c)
  ELSE LET t == x[1] * m + c
       IN  <<t % Base>> \o BMulAddRec(Tail(x), m, t \div Base)

BMulAdd(x, m, c) == BNorm(BMulAddRec(x, m, c))

RECURSIVE BAddRec(_, _, _)
BAddRec(x, y, c) ==
  IF x = <<>> /\ y = <<>> THEN BFromInt(c)
  ELSE LET a == IF x = <<>> THEN 0 ELSE x[1]
           b == IF y = <<>> THEN 0 ELSE y[1]
           t == a + b + c
       IN  <<t % Base>> \o
           BAddRec(IF x = <<>> THEN x ELSE Tail(x),
                   IF y = <<>> THEN y ELSE Tail(y), t \div Base)

BAdd(x, y) == BNorm(BAddRec(x, y, 0))

\* -1, 0, 1 as x < y, x = y, x > y (both normalised)
RECURSIVE BCmpFrom(_, _, _)
BCmpFrom(x, y, i) ==
  IF i = 0 THEN 0
  ELSE IF x[i] < y[i] THEN -1
  ELSE IF x[i] > y[i] THEN 1
  ELSE BCmpFrom(x, y, i - 1)

BCmp(x, y) ==
  IF Len(x) < Len(y) THEN -1
  ELSE IF Len(x) > Len(y) THEN 1
  ELSE BCmpFrom(x, y, Len(x))

BLe(x, y) == BCmp(x, y) <= 0
BLt(x, y) == BCmp(x, y) < 0

\* x - y for x >= y
RECURSIVE BSubRec(_, _, _)
BSubRec(x, y, borrow) ==
  IF x = <<>> THEN <<>>
  ELSE LET b == IF y = <<>> THEN 0 ELSE y[1]
           t == x[1] - b - borrow
       IN  <<IF t < 0 THEN t + Base ELSE t>> \o
           BSubRec(Tail(x), IF y = <<>> THEN y ELSE Tail(y),
                   IF t < 0 THEN 1 ELSE 0)

BSub(x, y) == BNorm(BSubRec(x, y, 0))

\* quotient and remainder of x by a small d
RECURSIVE BDivSmallRec(_, _)
BDivSmallRec(x, d) ==
  IF x = <<>> THEN [q |-> <<>>, r |-> 0]
  ELSE LET hi  == BDivSmallRec(Tail(x), d)
           cur == hi.r * Base + x[1]
       IN  [q |-> <<cur \div d>> \o hi.q, r |-> cur % d]

BDivSmall(x, d) ==
  LET qr == BDivSmallRec(x, d) IN [q |-> BNorm(qr.q), r |-> qr.r]

RECURSIVE IntBitLen(_)
IntBitLen(n) == IF n = 0 THEN 0 ELSE 1 + IntBitLen(n \div 2)

BitLen(x) ==
  IF x = <<>> THEN 0 ELSE LimbBits * (Len(x) - 1) + IntBitLen(x[Len(x)])

BBit(x, k) ==
  LET i == k \div LimbBits + 1
  IN  IF i > Len(x) THEN 0 ELSE (x[i] \div 2^(k % LimbBits)) % 2

Zeros(n) == [i \in 1..n |-> 0]

BShl(x, k) ==
  IF x = <<>> THEN x
  ELSE Zeros(k \div LimbBits) \o BMulAdd(x, 2^(k % LimbBits), 0)

\* floor(x / 2^k), and whether any bit was shifted out
BShr(x, k) ==
  LET n    == k \div LimbBits
      low  == SubSeq(x, 1, IF n < Len(x) THEN n ELSE Len(x))
      high == IF n < Len(x) THEN SubSeq(x, n + 1, Len(x)) ELSE <<>>
      qr   == BDivSmall(high, 2^(k % LimbBits))
  IN  [q |-> qr.q, sticky |-> qr.r # 0 \/ \E i \in 1..Len(low) : low[i] # 0]

\* the largest d < Base with b * d <= r, found bit by bit from the top
RECURSIVE BQuotDigit(_, _, _, _)
BQuotDigit(r, b, d, bit) ==
  IF bit < 0 THEN d
  ELSE IF BLe(BMulAdd(b, d + 2^bit, 0), r)
       THEN BQuotDigit(r, b, d + 2^bit, bit - 1)
       ELSE BQuotDigit(r, b, d, bit - 1)

\* quotient and remainder of a by b # 0, limb by limb from the top of a
RECURSIVE BDivModRec(_, _)
BDivModRec(a, b) ==
  IF a = <<>> THEN [q |-> <<>>, r |-> <<>>]
  ELSE LET hi  == BDivModRec(Tail(a), b)
           cur == BNorm(<<a[1]>> \o hi.r)
           d   == BQuotDigit(cur, b, 0, LimbBits - 1)
       IN  [q |-> <<d>> \o hi.q, r |-> BSub(cur, BMulAdd(b, d, 0))]

BDivMod(a, b) ==
  LET qr == BDivModRec(a, b) IN [q |-> BNorm(qr.q), r |-> qr.r]

RECURSIVE BPow(_, _)
BPow(b, n) == IF n = 0 THEN <<1>> ELSE BMulAdd(BPow(b, n - 1), b, 0)

RECURSIVE BMul(_, _)
BMul(x, y) ==
  IF y = <<>> THEN <<>>
  ELSE BAdd(BMulAdd(x, y[1], 0),
            IF BMul(x, Tail(y)) = <<>> THEN <<>> ELSE <<0>> \o BMul(x, Tail(y)))

(***************************************************************************)
(* float64: (-1)^neg * m * 2^e.  FRound rounds an exact m * 2^e (plus a    *)
(* nonzero fraction below the last bit of m when sticky) to 53 bits,       *)
(* nearest, ties to even.  The exponent never leaves the binary64 range    *)
(* for the values the program handles.                                     *)
(***************************************************************************)
\* q, or q + 1 when the discarded part (its top bit half, the rest sticky)
\* is above one half, or is one half and q is odd
RoundQ(q, half, sticky) ==
  IF half /\ (sticky \/ BBit(q, 0) = 1) THEN BAdd(q, <<1>>) ELSE q

\* sh is n shifted right by k - 1 bits: n / 2^k to the nearest integer
RoundHalfEven(sh, sticky) ==
  RoundQ(BShr(sh.q, 1).q, BBit(sh.q, 0) = 1, sticky \/ sh.sticky)

\* n / 2^k to the nearest integer, for k >= 1
ShiftRound(n, k, sticky) == RoundHalfEven(BShr(n, k - 1), sticky)

FRound(neg, n, e, sticky) ==
  IF BitLen(n) <= 53 THEN [neg |-> neg, m |-> n, e |-> e]
  ELSE [neg |-> neg, m |-> ShiftRound(n, BitLen(n) - 53, sticky),
        e |-> e + BitLen(n) - 53]

\* float64(b) for a uint64 b
FFromUint(b) == FRound(FALSE, b, 0, FALSE)

FIsZero(x) == x.m = <<>>

\* x >= y for x, y >= 0
FGe(x, y) ==
  LET emin == IF x.e < y.e THEN x.e ELSE y.e
  IN  BLe(BShl(y.m, y.e - emin), BShl(x.m, x.e - emin))

\* x > 0
FPositive(x) == ~x.neg /\ ~FIsZero(x)

\* the float64 nearest to qr.q * 2^e, qr.r saying whether a fraction is left
FRoundQuot(neg, qr, e) == FRound(neg, qr.q, e, qr.r # <<>>)

\* x / y for y # 0
FDiv(x, y) ==
  IF FIsZero(x) THEN [neg |-> x.neg # y.neg, m |-> <<>>, e |-> 0]
  ELSE LET d == 55 + BitLen(y.m) - BitLen(x.m)
           s == IF d > 0 /\ y.m # <<1>> THEN d ELSE 0
       IN  FRoundQuot(x.neg # y.neg,
                      IF y.m = <<1>> THEN [q |-> x.m, r |-> <<>>]
                      ELSE BDivMod(BShl(x.m, s), y.m),
                      x.e - y.e - s)

\* k * x for a small integer constant k
FMulSmall(k, x) == FRound(x.neg, BMulAdd(x.m, k, 0), x.e, FALSE)

\* math.Pow(2, n) and math.Pow10(n), both exact for the n used
Pow2(n) == [neg |-> FALSE, m |-> <<1>>, e |-> n]
Pow10(n) == FRound(FALSE, BPow(10, n), 0, FALSE)

(***************************************************************************)
(* fmt and strconv.                                                        *)
(***************************************************************************)
RECURSIVE BToDec(_)
BToDec(x) ==
  IF x = <<>> THEN ""
  ELSE LET qr == BDivSmall(x, 10) IN BToDec(qr.q) \o ToString(qr.r)

\* fmt.Sprintf("%d", b) and strconv.FormatUint(b, 10)
FormatUint(b) == IF b = <<>> THEN "0" ELSE BToDec(b)

\* |x| * 10 rounded to an integer, nearest, ties to even
FTenths(x) ==
  IF x.e >= 0 THEN BShl(BMulAdd(x.m, 10, 0), x.e)
  ELSE ShiftRound(BMulAdd(x.m, 10, 0), -x.e, FALSE)

\* the digits d of a number of tenths, with the point before the last
PointTenths(neg, d) ==
  (IF neg THEN "-" ELSE "")
    \o (IF Len(d) <= 1 THEN "0" ELSE SubSeq(d, 1, Len(d) - 1))
    \o "."
    \o (IF Len(d) = 0 THEN "0" ELSE SubSeq(d, Len(d), Len(d)))

\* fmt.Sprintf("%0.1f", x)
SprintfF1(x) == PointTenths(x.neg, BToDec(FTenths(x)))

Char(s, i) == SubSeq(s, i, i)

\* the value of a digit character; 99 for any other character
DigitVal(c) ==
  CASE c = "0" -> 0 [] c = "1" -> 1 [] c = "2" -> 2 [] c = "3" -> 3
    [] c = "4" -> 4 [] c = "5" -> 5 [] c = "6" -> 6 [] c = "7" -> 7
    [] c = "8" -> 8 [] c = "9" -> 9
    [] c \in {"a", "A"} -> 10 [] c \in {"b", "B"} -> 11
    [] c \in {"c", "C"} -> 12 [] c \in {"d", "D"} -> 13
    [] c \in {"e", "E"} -> 14 [] c \in {"f", "F"} -> 15
    [] OTHER -> 99

AllDigits(s, base) == \A i \in 1..Len(s) : DigitVal(Char(s, i)) < base

RECURSIVE DigitsValue(_, _)
DigitsValue(s, base) ==
  IF s = "" THEN <<>>
  ELSE BMulAdd(DigitsValue(SubSeq(s, 1, Len(s) - 1), base), base,
               DigitVal(Char(s, Len(s))))

MaxUint64 == BSub(BShl(<<1>>, 64), <<1>>)

\* a parsed value v as a uint64: a range error above 2^64 - 1
InRange(v) ==
  IF BLt(MaxUint64, v) THEN [ok |-> FALSE, v |-> MaxUint64]
  ELSE [ok |-> TRUE, v |-> v]

\* the digits after the base prefix: a syntax error when a character is
\* no digit of the base
ParseDigits(digits, base) ==
  IF ~AllDigits(digits, base) THEN [ok |-> FALSE, v |-> <<>>]
  ELSE InRange(DigitsValue(digits, base))

\* strconv.ParseUint(s, 0, 64) on strings without '_' and without the
\* "0b"/"0o" prefixes: decimal, "0x" hexadecimal, leading-"0" octal.
ParseUint(s) ==
  IF s = "" THEN [ok |-> FALSE, v |-> <<>>]
  ELSE LET hex == Len(s) >= 3 /\ Char(s, 1) = "0" /\ Char(s, 2) \in {"x", "X"}
           oct == ~hex /\ Char(s, 1) = "0"
       IN  ParseDigits(SubSeq(s, IF hex THEN 3 ELSE IF oct THEN 2 ELSE 1, Len(s)),
                       IF hex THEN 16 ELSE IF oct THEN 8 ELSE 10)

\* the integer and fraction digits of a mantissa
ParseParts(neg, int, frac) ==
  IF Len(int) + Len(frac) < 1 \/ ~AllDigits(int, 10) \/ ~AllDigits(frac, 10)
  THEN [ok |-> FALSE, f |-> Pow2(0)]
  ELSE [ok |-> TRUE,
        f  |-> FDiv([neg |-> neg, m |-> DigitsValue(int \o frac, 10), e |-> 0],
                    [neg |-> FALSE, m |-> BPow(10, Len(frac)), e |-> 0])]

\* a mantissa whose decimal points stand at the positions dots
ParseMantissa(neg, body, dots) ==
  IF Cardinality(dots) > 1 THEN [ok |-> FALSE, f |-> Pow2(0)]
  ELSE LET dot == IF dots = {} THEN Len(body) + 1 ELSE CHOOSE i \in dots : TRUE
       IN  ParseParts(neg, SubSeq(body, 1, dot - 1),
                      SubSeq(body, dot + 1, Len(body)))

ParseSigned(neg, body) ==
  ParseMantissa(neg, body, {i \in 1..Len(body) : Char(body, i) = "."})

\* strconv.ParseFloat(s, 64) on strings without exponent, hexadecimal
\* mantissa, "inf" or "nan": [+-] digits [. digits], at least one digit.
ParseFloat(s) ==
  LET signed == Len(s) >= 1 /\ Char(s, 1) \in {"+", "-"}
  IN  ParseSigned(signed /\ Char(s, 1) = "-", SubSeq(s, IF signed THEN 2 ELSE 1, Len(s)))

(***************************************************************************)
(* The formatters.  A formatter returns [ok |-> TRUE, s |-> its string],   *)
(* or Fatal when it ends the process through log.Fatal.                    *)
(***************************************************************************)
Fatal == [ok |-> FALSE, s |-> ""]
Ok(str) == [ok |-> TRUE, s |-> str]

\* stringToUint64: ParseUint, and log.Fatal (ok = FALSE) on an error
stringToUint64(s) == ParseUint(s)

bytesUnits == <<"Bytes", "KiB", "MiB", "GiB", "TiB", "PiB", "EiB">>
hitsUnits == <<" ", "k", "M", "G", "T", "P", "E">>

\* math.Pow(2, float64(i*10)) and math.Pow10(i * 3) for the i of the loops
bytesLimits == [i \in 1..6 |-> Pow2(i * 10)]
hitsLimits == [i \in 1..6 |-> Pow10(i * 3)]

\* the index at which a descending loop over units 6..1 breaks: the first
\* (largest) i whose limit f reaches; 0 when the loop ends without a break
BreakIndex(f, limits) ==
  LET met == {i \in 1..6 : FGe(f, limits[i])}
  IN  IF met = {} THEN 0 ELSE CHOOSE i \in met : \A j \in met : j <= i

\* value and unit when the loop breaks at i (both stay zero without a break)
ScaledAt(f, limits, units, i) ==
  IF i = 0 THEN [value |-> FFromUint(<<>>), unit |-> ""]
  ELSE [value |-> FDiv(f, limits[i]), unit |-> units[i + 1]]

Scaled(f, limits, units) == ScaledAt(f, limits, units, BreakIndex(f, limits))

\* fmt.Sprintf("%0.1f %s", value, unit) and fmt.Sprintf("%0.1f%s", value, unit)
SprintfBytes(r) == SprintfF1(r.value) \o " " \o r.unit
SprintfHits(r) == SprintfF1(r.value) \o r.unit

\* formatBytes of the revision that takes the number itself
formatBytes(b) ==
  IF BLt(b, BFromInt(1024)) THEN FormatUint(b) \o " Bytes"
  ELSE SprintfBytes(Scaled(FFromUint(b), bytesLimits, bytesUnits))

\* fBytesOf with the decimal threshold 1000 where the code has 1024: the
\* fault of confusing the two kinds of kilo
fBytesOfKilo(b) ==
  IF ~b.ok THEN Fatal
  ELSE IF BLt(b.v, BFromInt(1000)) THEN Ok(FormatUint(b.v) \o " Bytes")
  ELSE Ok(SprintfBytes(Scaled(FFromUint(b.v), bytesLimits, bytesUnits)))

\* fBytes after its call of stringToUint64 has returned b
fBytesOf(b) ==
  IF ~b.ok THEN Fatal
  ELSE IF BLt(b.v, BFromInt(1024)) THEN Ok(FormatUint(b.v) \o " Bytes")
  ELSE Ok(SprintfBytes(Scaled(FFromUint(b.v), bytesLimits, bytesUnits)))

fBytes(s) == fBytesOf(stringToUint64(s))

\* formatHits of the revision that takes the number itself
formatHits(hits) ==
  IF BLt(hits, BFromInt(1000)) THEN FormatUint(hits)
  ELSE SprintfHits(Scaled(FFromUint(hits), hitsLimits, hitsUnits))

\* fHits after its call of stringToUint64 has returned hits
fHitsOf(hits) ==
  IF ~hits.ok THEN Fatal
  ELSE IF BLt(hits.v, BFromInt(1000)) THEN Ok(FormatUint(hits.v) \o "    ")
  ELSE Ok(SprintfHits(Scaled(FFromUint(hits.v), hitsLimits, hitsUnits)))

fHits(s) == fHitsOf(stringToUint64(s))

\* fPercOf without the test l > 0: the division by zero of float64 gives
\* an infinity or a NaN, which %0.1f prints by name
fPercOfNoGuard(u, l) ==
  IF ~u.ok THEN Fatal
  ELSE IF ~l.ok THEN Fatal
  ELSE IF FIsZero(l.f)
       THEN Ok(IF FIsZero(u.f) THEN "NaN %"
               ELSE IF u.f.neg # l.f.neg THEN "-Inf %" ELSE "+Inf %")
       ELSE Ok(SprintfF1(FDiv(FMulSmall(100, u.f), l.f)) \o " %")

\* fPercOf without the factor 100: a ratio printed as if it were a percentage
fPercOfRatio(u, l) ==
  IF ~u.ok THEN Fatal
  ELSE IF ~l.ok THEN Fatal
  ELSE IF FPositive(l.f) THEN Ok(SprintfF1(FDiv(u.f, l.f)) \o " %")
       ELSE Ok(" ")

\* fPerc after strconv.ParseFloat has returned u for upper and l for lower
fPercOf(u, l) ==
  IF ~u.ok THEN Fatal
  ELSE IF ~l.ok THEN Fatal
  ELSE IF FPositive(l.f)
       THEN Ok(SprintfF1(FDiv(FMulSmall(100, u.f), l.f)) \o " %")
       ELSE Ok(" ")

fPerc(upper, lower) == fPercOf(ParseFloat(upper), ParseFloat(lower))

(***************************************************************************)
(* strings and sort.                                                       *)
(***************************************************************************)
SetMin(S) == CHOOSE x \in S : \A y \in S : x <= y
SetMax(S) == CHOOSE x \in S : \A y \in S : y <= x

\* the characters of the modelled strings, in ASCII code order
Ascii ==
  "\t +-.0123456789ABCDEFGHIJKLMNOPQRSTUVWXYZ_abcdefghijklmnopqrstuvwxyz"

Ord(c) == CHOOSE i \in 1..Len(Ascii) : Char(Ascii, i) = c

IsSpace(c) == c \in {" ", "\t"}

\* a < b as Go compares strings: byte by byte, a proper prefix first
StrLess(a, b) ==
  LET n    == IF Len(a) < Len(b) THEN Len(a) ELSE Len(b)
      diff == {i \in 1..n : Char(a, i) # Char(b, i)}
  IN  IF diff = {} THEN Len(a) < Len(b)
      ELSE Ord(Char(a, SetMin(diff))) < Ord(Char(b, SetMin(diff)))

\* sort.Strings
SortStrings(seq) ==
  LET rank(i) == 1 + Cardinality({j \in 1..Len(seq) :
                       StrLess(seq[j], seq[i]) \/ (seq[j] = seq[i] /\ j < i)})
  IN  [k \in 1..Len(seq) |-> seq[CHOOSE i \in 1..Len(seq) : rank(i) = k]]

\* strings.Fields: the maximal runs of non-space characters, in order
Fields(s) ==
  LET starts == {i \in 1..Len(s) : /\ ~IsSpace(Char(s, i))
                                   /\ (i = 1 \/ IsSpace(Char(s, i - 1)))}
      ends   == {i \in 1..Len(s) : /\ ~IsSpace(Char(s, i))
                                   /\ (i = Len(s) \/ IsSpace(Char(s, i + 1)))}
      nth(S, k) == CHOOSE x \in S : Cardinality({y \in S : y < x}) = k - 1
  IN  [k \in 1..Cardinality(starts) |-> SubSeq(s, nth(starts, k), nth(ends, k))]

\* strings.TrimSpace
TrimSpace(s) ==
  LET inked == {i \in 1..Len(s) : ~IsSpace(Char(s, i))}
  IN  IF inked = {} THEN "" ELSE SubSeq(s, SetMin(inked), SetMax(inked))

UpperChar(c) ==
  LET i == Ord(c)
  IN  IF Ord("a") <= i /\ i <= Ord("z") THEN Char(Ascii, i - Ord("a") + Ord("A"))
      ELSE c

\* strings.ToUpper
RECURSIVE ToUpper(_)
ToUpper(s) ==
  IF s = "" THEN "" ELSE UpperChar(Char(s, 1)) \o ToUpper(SubSeq(s, 2, Len(s)))

(***************************************************************************)
(* The statistics extractor and the section registry.                      *)
(***************************************************************************)
sections == <<"arc", "dmu", "l2arc", "tunables", "vdev", "xuio", "zfetch", "zil">>

sectionPaths ==
  [arc |-> "arcstats", dmu |-> "dmu_tx", vdev |-> "vdev_cache_stats",
   xuio |-> "xuio_stats", zfetch |-> "zfetchstats", zil |-> "zil"]

Paths == {sectionPaths[k] : k \in DOMAIN sectionPaths}

\* cleanProcLine with the index of the value off by one: the type field
\* taken for the value
cleanProcLineSecond(s) ==
  LET fields == Fields(s)
  IN  IF Len(fields) < 3 THEN [ok |-> FALSE, name |-> "", value |-> ""]
      ELSE [ok |-> TRUE, name |-> TrimSpace(fields[1]),
            value |-> TrimSpace(fields[2])]

\* cleanProcLine: the first and third field; indexing a line of fewer than
\* three fields panics (ok = FALSE)
cleanProcLine(s) ==
  LET fields == Fields(s)
  IN  IF Len(fields) < 3 THEN [ok |-> FALSE, name |-> "", value |-> ""]
      ELSE [ok |-> TRUE, name |-> TrimSpace(fields[1]),
            value |-> TrimSpace(fields[3])]

\* the loop of procSection over the first n lines, writing into m
RECURSIVE procLines(_, _, _)
procLines(lines, n, m) ==
  IF n = 0 THEN [ok |-> TRUE, m |-> m]
  ELSE LET before == procLines(lines, n - 1, m)
           nv     == cleanProcLine(lines[n])
       IN  IF ~before.ok THEN before
           ELSE IF ~nv.ok THEN [ok |-> FALSE, m |-> before.m]
           ELSE [ok |-> TRUE,
                 m  |-> [k \in DOMAIN before.m \cup {nv.name} |->
                           IF k = nv.name THEN nv.value ELSE before.m[k]]]

EmptyMap == [k \in {} |-> ""]

\* procSection(s, m) for a fresh map m: fail is "fatal" when kstats has no
\* section s, "panic" when a line has fewer than three fields
procSection(ks, s) ==
  IF s \notin DOMAIN ks THEN [fail |-> "fatal", m |-> EmptyMap]
  ELSE LET r == procLines(ks[s], Len(ks[s]), EmptyMap)
       IN  [fail |-> IF r.ok THEN "" ELSE "panic", m |-> r.m]

\* m[k] of a Go map: the empty string for an absent key
Get(m, k) == IF k \in DOMAIN m THEN m[k] ELSE ""

\* isLegalSection comparing without regard to case
isLegalSectionFold(sec) ==
  \E i \in 1..Len(sections) : ToUpper(sec) = ToUpper(sections[i])

isLegalSection(sec) ==
  LET step(result, i) == IF sec = sections[i] THEN TRUE ELSE result
      loop[i \in 0..Len(sections)] ==
        IF i = 0 THEN FALSE ELSE step(loop[i - 1], i)
  IN  loop[Len(sections)]

(***************************************************************************)
(* The report routines.  Standard output is a sequence of items, one per   *)
(* print call: [fn |-> the call, a |-> its string arguments].  A routine   *)
(* is a sequence of steps in program order; a step fails ("fatal" for      *)
(* log.Fatal, "panic" for a run-time panic) before it prints, and a step   *)
(* with fn = "" prints nothing.  A routine returns what it printed up to   *)
(* its first failing step, and that step's failure.                        *)
(***************************************************************************)
Item(fn, a) == [fn |-> fn, a |-> a]
Step(fail, fn, a) == [fail |-> fail, item |-> Item(fn, a)]

\* "fatal" when one of the formatter results rs is the Fatal result
FatalIn(rs) == IF \E r \in rs : ~r.ok THEN "fatal" ELSE ""

\* what a routine with these steps prints, how it fails, and the map it built
RunSteps(steps, m) ==
  LET bad == {i \in 1..Len(steps) : steps[i].fail # ""}
      n   == IF bad = {} THEN Len(steps) + 1 ELSE SetMin(bad)
  IN  [out   |-> SelectSeq([i \in 1..(n - 1) |-> steps[i].item],
                           LAMBDA it : it.fn # ""),
       fail  |-> IF bad = {} THEN "" ELSE steps[n].fail,
       stats |-> m]

Two64 == BShl(<<1>>, 64)

\* uint64 arithmetic, modulo 2^64
U64Add(x, y) == BDivMod(BAdd(x, y), Two64).r
U64Sub(x, y) == IF BLe(y, x) THEN BSub(x, y) ELSE BSub(BAdd(x, Two64), y)
U64MulSmall(x, k) == BDivMod(BMulAdd(x, k, 0), Two64).r

RECURSIVE U64Sum(_)
U64Sum(vs) == IF vs = <<>> THEN <<>> ELSE U64Add(Head(vs), U64Sum(Tail(vs)))

\* strconv.FormatUint of the sum of the numbers ns, each the result of a
\* call of stringToUint64; Fatal when one of the calls ended in log.Fatal
FormatSum(ns) ==
  IF \E i \in 1..Len(ns) : ~ns[i].ok THEN Fatal
  ELSE Ok(FormatUint(U64Sum([i \in 1..Len(ns) |-> ns[i].v])))

\* the print helpers; value and perc are results of formatters, and the
\* step fails when one of them is Fatal
prtL1(msg, value) == Step(FatalIn({value}), "prtL1", <<msg, value.s>>)
prtL2(msg, value) == Step(FatalIn({value}), "prtL2", <<msg, value.s>>)
prtL1p(msg, perc, value) ==
  Step(FatalIn({perc, value}), "prtL1p", <<msg, perc.s, value.s>>)
prtL2p(msg, perc, value) ==
  Step(FatalIn({perc, value}), "prtL2p", <<msg, perc.s, value.s>>)
Println(text) == Step("", "Println", <<text>>)

\* a health flag that reads the counter as a number
healthOfNumber(throttle) ==
  IF stringToUint64(throttle) = [ok |-> TRUE, v |-> <<>>] THEN "HEALTHY"
  ELSE "THROTTLED"

\* the health flag of printARC for the raw text of memory_throttle_count
health(throttle) == IF throttle # "0" THEN "THROTTLED" ELSE "HEALTHY"

\* printARC once procSection has returned ps and cacheTotalString is known
printARCRows(ps, arcStats, cacheTotalString) ==
  LET mfuPerc == fPerc(Get(arcStats, "mfu_size"), cacheTotalString.s)
      mruPerc == fPerc(Get(arcStats, "mru_size"), cacheTotalString.s)
  IN  RunSteps(<<
        Step(ps.fail, "", <<>>),
        prtL1("ARC summary:", Ok(health(Get(arcStats, "memory_throttle_count")))),
        prtL2("Memory throttle count:",
              fHits(Get(arcStats, "memory_throttle_count"))),
        prtL1p("ARC size:", fPerc(Get(arcStats, "size"), Get(arcStats, "c_max")),
               fBytes(Get(arcStats, "size"))),
        prtL2p("Target size (adaptive):", Ok("FEHLT"), fBytes(Get(arcStats, "c"))),
        prtL2p("Min size (hard limit):", Ok("FEHLT"),
               fBytes(Get(arcStats, "c_min"))),
        prtL2p("Max size (high water):", Ok("FEHLT"),
               fBytes(Get(arcStats, "c_max"))),
        Println("\nARC size breakdown:"),
        Step(FatalIn({cacheTotalString, mfuPerc, mruPerc}), "", <<>>),
        prtL2p("Most Frequently Used (MFU) cache size:", mfuPerc,
               fBytes(Get(arcStats, "mfu_size"))),
        prtL2p("Most Recently Used (MRU) cache size:", mruPerc,
               fBytes(Get(arcStats, "mru_size"))) >>, arcStats)

printARCOf(ps) ==
  printARCRows(ps, ps.m,
               FormatSum(<<stringToUint64(Get(ps.m, "mfu_size")),
                           stringToUint64(Get(ps.m, "mru_size"))>>))

printARC(ks) == printARCOf(procSection(ks, "arcstats"))

printDMUOf(ps) ==
  RunSteps(<<Step(ps.fail, "", <<>>),
             Println("TODO Print DMU statistics"),
             Step("", "Println", <<"TEST (efficiency)", Get(ps.m, "efficiency")>>)>>,
           ps.m)

printDMU(ks) == printDMUOf(procSection(ks, "dmu_tx"))

printL2ARC == RunSteps(<<Println("TODO Print L2ARC statistics")>>, EmptyMap)
printXuio == RunSteps(<<Println("TODO Print Xuio statistics")>>, EmptyMap)
printZfetch == RunSteps(<<Println("TODO Print zfetch stuff")>>, EmptyMap)
printZIL == RunSteps(<<Println("TODO Print ZIL stuff")>>, EmptyMap)

\* printVDEV once procSection has returned ps and total is known
printVDEVRows(ps, vdevStats, total) ==
  LET hitRatio         == fPerc(Get(vdevStats, "hits"), total.s)
      missRatio        == fPerc(Get(vdevStats, "misses"), total.s)
      delegationsRatio == fPerc(Get(vdevStats, "delegations"), total.s)
  IN  RunSteps(<<
        Step(ps.fail, "", <<>>),
        Step(FatalIn({total, hitRatio, missRatio, delegationsRatio}), "", <<>>),
        prtL1("VDEV summary: ", Ok(" ")),
        prtL2p("Cache hits:", hitRatio, fHits(Get(vdevStats, "hits"))),
        prtL2p("Cache misses:", missRatio, fHits(Get(vdevStats, "hits"))),
        prtL2p("Cache delegations:", delegationsRatio,
               fHits(Get(vdevStats, "hits"))) >>, vdevStats)

printVDEVOf(ps) ==
  printVDEVRows(ps, ps.m,
                FormatSum(<<stringToUint64(Get(ps.m, "delegations")),
                            stringToUint64(Get(ps.m, "misses")),
                            stringToUint64(Get(ps.m, "hits"))>>))

printVDEV(ks) == printVDEVOf(procSection(ks, "vdev_cache_stats"))

graphIndent == "      "
graphWidth == 70
infoLine == graphIndent \o "ARC: %s/%s (%s)  MFU: %s  MRU: %s"

\* the largest slice the Go runtime allocates (maxAlloc, 2^48 bytes)
MaxAlloc == BShl(<<1>>, 48)

\* strings.Repeat(c, int(count)) of a one-byte string fails for a count
\* that is negative as an int (2^63 and above) or beyond the largest slice;
\* it is taken to succeed otherwise (the memory is there)
RepeatFails(count) == BLe(MaxAlloc, count)

NoBar == [mfuChars |-> <<>>, mruChars |-> <<>>, otherChars |-> <<>>]

\* the bar and its padding once the lengths c of its three runs are known
graphSpace(c, used, inner) ==
  IF RepeatFails(c.mfuChars) \/ RepeatFails(c.mruChars) \/ RepeatFails(c.otherChars)
  THEN c @@ [fail |-> "panic", negative |-> FALSE, whiteSpace |-> <<>>]
  ELSE c @@ [fail |-> "", negative |-> BLt(inner, used),
             whiteSpace |-> IF BLe(used, inner) THEN BSub(inner, used) ELSE <<>>]

graphRuns(c) ==
  graphSpace(c, BAdd(BAdd(c.mfuChars, c.mruChars), c.otherChars),
             BFromInt(graphWidth - 2))

\* (b * graphWidth) / arcMaxBytes in uint64
graphChars(b, arcMaxBytes) == BDivMod(U64MulSmall(b, graphWidth), arcMaxBytes).q

\* the lengths of the three runs of the bar and of its padding, and the
\* failure that stops the computation: n holds the results of the four
\* calls of stringToUint64
graphBarOf(n) ==
  IF \E k \in DOMAIN n : ~n[k].ok
  THEN NoBar @@ [fail |-> "fatal", negative |-> FALSE, whiteSpace |-> <<>>]
  ELSE IF n.c_max.v = <<>>
  THEN NoBar @@ [fail |-> "panic", negative |-> FALSE, whiteSpace |-> <<>>]
  ELSE graphRuns([mfuChars   |-> graphChars(n.mfu_size.v, n.c_max.v),
                  mruChars   |-> graphChars(n.mru_size.v, n.c_max.v),
                  otherChars |-> graphChars(U64Sub(n.size.v,
                                                   U64Add(n.mfu_size.v, n.mru_size.v)),
                                            n.c_max.v)])

graphBar(arcStats) ==
  graphBarOf([k \in {"mfu_size", "mru_size", "c_max", "size"} |->
                stringToUint64(Get(arcStats, k))])

\* fmt.Sprintf(infoLine, ...) of the five formatted parts
graphStatusLine(parts) ==
  graphIndent \o "ARC: " \o parts[1].s \o "/" \o parts[2].s
    \o " (" \o parts[3].s \o ")  MFU: " \o parts[4].s \o "  MRU: " \o parts[5].s

\* strings.Repeat(" ", offset) panics for a negative offset, the half
\* (rounded towards zero) of the width left beside a line of length n
PaddingFails(n) == graphWidth - n + Len(graphIndent) < -1

\* printGraphic once procSection has returned ps, fPerc arcPerc, the bar
\* is computed and the five parts of the status line are formatted
printGraphicRows(ps, arcPerc, bar, parts) ==
  RunSteps(<<
    Step(ps.fail, "", <<>>),
    Step(FatalIn({arcPerc}), "", <<>>),
    Step(bar.fail, "", <<>>),
    Step(FatalIn({parts[i] : i \in 1..5}), "", <<>>),
    Step(IF PaddingFails(Len(graphStatusLine(parts))) THEN "panic" ELSE "", "", <<>>),
    Step(IF PaddingFails(Len(infoLine)) THEN "panic" ELSE "", "", <<>>),
    Step("", "statusLine", <<graphStatusLine(parts)>>),
    Step("", "line", <<>>),
    Step(IF bar.negative THEN "panic" ELSE "", "bar",
         <<FormatUint(bar.mfuChars), FormatUint(bar.mruChars),
           FormatUint(bar.otherChars), FormatUint(bar.whiteSpace)>>),
    Step("", "line", <<>>),
    Step("", "graphNote", <<>>) >>, ps.m)

printGraphicOf(ps, arcPerc) ==
  printGraphicRows(ps, arcPerc, graphBar(ps.m),
                   <<fBytes(Get(ps.m, "size")), fBytes(Get(ps.m, "c_max")),
                     arcPerc, fBytes(Get(ps.m, "mfu_size")),
                     fBytes(Get(ps.m, "mru_size"))>>)

printGraphicFrom(ps) ==
  printGraphicOf(ps, fPerc(Get(ps.m, "size"), Get(ps.m, "c_max")))

printGraphic(ks) == printGraphicFrom(procSection(ks, "arcstats"))

\* printHeader: the title, with the time of the run
printHeader == RunSteps(<<Step("", "printHeader", <<>>)>>, EmptyMap)

\* the elements of a set of strings in sort.Strings order
SortedSeq(S) ==
  [k \in 1..Cardinality(S) |->
     CHOOSE x \in S : Cardinality({y \in S : StrLess(y, x)}) = k - 1]

RECURSIVE Flatten(_)
Flatten(seqs) == IF seqs = <<>> THEN <<>> ELSE Head(seqs) \o Flatten(Tail(seqs))

\* one line of the raw dump: nv is what cleanProcLine returns for it
rawLine(nv) ==
  Step(IF nv.ok THEN "" ELSE "panic", "rawLine", <<nv.name, nv.value>>)

printRawData(ks) ==
  LET block(p) ==
        <<Step("", "rawTitle", <<ToUpper(p)>>)>>
          \o (IF p \in DOMAIN ks
              THEN [i \in 1..Len(ks[p]) |-> rawLine(cleanProcLine(ks[p][i]))]
              ELSE <<>>)
  IN  RunSteps(Flatten([i \in 1..Cardinality(Paths) |-> block(SortedSeq(Paths)[i])]),
               EmptyMap)

\* printTunables over the tunables the system exposes: t.dir and t.files
\* say whether the parameter directory and its files can be read, t.modinfo
\* whether /sbin/modinfo runs; t.params and t.descs are their contents
printTunables(opts, t) ==
  LET rows(k) ==
        (IF opts.d THEN <<Step("", "tunableDesc", <<Get(t.descs, k)>>)>> ELSE <<>>)
          \o <<Step("", IF opts.a THEN "tunableAlt" ELSE "tunable",
                    <<k, t.params[k]>>)>>
  IN  RunSteps(<<Step(IF t.dir /\ t.files THEN "" ELSE "fatal", "", <<>>),
                 Step(IF opts.d /\ ~t.modinfo THEN "fatal" ELSE "", "", <<>>)>>
               \o Flatten([i \in 1..Cardinality(DOMAIN t.params) |->
                             rows(SortedSeq(DOMAIN t.params)[i])]),
               EmptyMap)

\* sectionCalls[s]() for a legal section s
sectionCall(s, ks, opts, t) ==
  CASE s = "arc"      -> printARC(ks)
    [] s = "dmu"      -> printDMU(ks)
    [] s = "l2arc"    -> printL2ARC
    [] s = "tunables" -> printTunables(opts, t)
    [] s = "vdev"     -> printVDEV(ks)
    [] s = "xuio"     -> printXuio
    [] s = "zfetch"   -> printZfetch
    [] s = "zil"      -> printZIL

\* the keys of the dispatch table sectionCalls
sectionCallNames ==
  {"arc", "dmu", "l2arc", "tunables", "vdev", "xuio", "zfetch", "zil"}

(***************************************************************************)
(* The program.                                                            *)
(*   pc      where main stands: "start", "loaded" (after getKstats),       *)
(*           "headed" (after printHeader), "done"; "unit" when a single    *)
(*           formatter is exercised instead of main                        *)
(*   args    the command line: the flags g, r, a, d and the -s string      *)
(*   procfs  the files under /proc/spl/kstat/zfs: whether each opens, and  *)
(*           its lines                                                     *)
(*   tunfs   the tunables of /sys/module/zfs/parameters and modinfo        *)
(*   kstats  the global map filled by getKstats                            *)
(*   stats   the map the last report routine built with procSection        *)
(*   stdout  the items printed so far                                      *)
(*   exit    "running", "exit0" (os.Exit(0)), "fatal" (log.Fatal),         *)
(*           "panic" (run-time panic)                                      *)
(*   loopIdx the index into sections of the loop that ends main            *)
(*   call    a formatter call: its name, its arguments and its result      *)
(***************************************************************************)
VARIABLES pc, args, procfs, tunfs, kstats, stats, stdout, exit, loopIdx, call

vars == <<pc, args, procfs, tunfs, kstats, stats, stdout, exit, loopIdx, call>>
inputs == <<args, procfs, tunfs>>

NoCall == [fn |-> "", arg |-> <<>>, res |-> Ok("")]

\* the ways getKstats can end: "" (every file read), "fatal" (a file does
\* not open), "panic" (a file has fewer than the two header lines); the
\* files are visited in the unspecified order of a Go map
getKstatsOutcomes(fs) ==
  LET bad == {"fatal" : p \in {q \in Paths : ~fs[q].exists}}
               \cup {"panic" : p \in {q \in Paths : fs[q].exists /\ Len(fs[q].lines) < 2}}
  IN  IF bad = {} THEN {""} ELSE bad

getKstats(fs) ==
  [p \in Paths |-> SortStrings(SubSeq(fs[p].lines, 3, Len(fs[p].lines)))]

Abort(out, fail) ==
  /\ stdout' = stdout \o out
  /\ exit' = fail
  /\ pc' = "done"

\* a routine returned r and os.Exit(0) follows, unless the routine failed
Finish(r) ==
  /\ Abort(r.out, IF r.fail = "" THEN "exit0" ELSE r.fail)
  /\ stats' = r.stats

\* flag.Parse and getKstats
Start ==
  /\ pc = "start"
  /\ \E o \in getKstatsOutcomes(procfs) :
       IF o = ""
       THEN /\ kstats' = getKstats(procfs)
            /\ pc' = "loaded"
            /\ UNCHANGED <<stdout, exit>>
       ELSE /\ Abort(<<>>, o)
            /\ UNCHANGED kstats
  /\ UNCHANGED <<inputs, stats, loopIdx, call>>

\* -g: printGraphic and os.Exit(0)
Graphic ==
  /\ pc = "loaded" /\ args.g
  /\ Finish(printGraphic(kstats))
  /\ UNCHANGED <<inputs, kstats, loopIdx, call>>

Header ==
  /\ pc = "loaded" /\ ~args.g
  /\ stdout' = stdout \o printHeader.out
  /\ pc' = "headed"
  /\ UNCHANGED <<inputs, kstats, stats, exit, loopIdx, call>>

\* printRawData returned raw; the tunables follow unless it failed
rawThenTunables(raw, t) ==
  IF raw.fail # "" THEN raw
  ELSE [t EXCEPT !.out = raw.out \o <<Println("\nTUNABLES:").item>> \o @]

\* -r: printRawData, the tunables and os.Exit(0)
Raw ==
  /\ pc = "headed" /\ args.r
  /\ Finish([rawThenTunables(printRawData(kstats), printTunables(args, tunfs))
               EXCEPT !.stats = stats])
  /\ UNCHANGED <<inputs, kstats, loopIdx, call>>

\* the banner of a section and its print routine
runSection(s) ==
  [sectionCall(s, kstats, args, tunfs)
     EXCEPT !.out = <<Item("banner", <<ToUpper(s)>>)>> \o @]

\* -s: one section and os.Exit(0), or log.Fatal for an unknown section
Section ==
  /\ pc = "headed" /\ ~args.r /\ args.s # ""
  /\ IF ~isLegalSection(args.s)
     THEN Abort(<<>>, "fatal") /\ UNCHANGED stats
     ELSE Finish(runSection(args.s))
  /\ UNCHANGED <<inputs, kstats, loopIdx, call>>

\* the end of one turn of the loop, whose section returned r
loopTurn(r) ==
  IF r.fail # "" \/ loopIdx = Len(sections)
  THEN Finish(r) /\ UNCHANGED loopIdx
  ELSE /\ stdout' = stdout \o r.out
       /\ stats' = r.stats
       /\ loopIdx' = loopIdx + 1
       /\ UNCHANGED <<pc, exit>>

\* one turn of the loop over all sections; os.Exit(0) after the last
Everything ==
  /\ pc = "headed" /\ ~args.r /\ args.s = ""
  /\ loopIdx <= Len(sections)
  /\ loopTurn(runSection(sections[loopIdx]))
  /\ UNCHANGED <<inputs, kstats, call>>

Next == Start \/ Graphic \/ Header \/ Raw \/ Section \/ Everything

(***************************************************************************)
(* The inputs: command lines, /proc files and tunables.                    *)
(***************************************************************************)
\* how many times a faulty input repeats a statistic
MaxDup == 2

SectionArgs ==
  {sections[i] : i \in 1..Len(sections)}
    \cup {"", "ARC", "Arc", "arcs", "zi", "l2", "bogus"}

ArgsSet == [g : BOOLEAN, r : BOOLEAN, a : BOOLEAN, d : BOOLEAN, s : SectionArgs]

Line(name, type, value) == name \o "    " \o type \o "    " \o value

headerLines ==
  <<"13 1 0x01 96 26112 1000000 2000000", "name    type    data">>

arcLines(v) ==
  <<Line("hits", "4", "12345"),
    Line("memory_throttle_count", "4", v.throttle),
    Line("c", "4", v.c), Line("c_min", "4", v.c_min), Line("c_max", "4", v.c_max),
    Line("size", "4", v.size),
    Line("mfu_size", "4", v.mfu_size), Line("mru_size", "4", v.mru_size)>>

vdevLines(v) ==
  <<Line("delegations", "4", v.delegations), Line("hits", "4", v.hits),
    Line("misses", "4", v.misses)>>

dataLines(arc, vdev) ==
  [arcstats |-> arcLines(arc),
   dmu_tx |-> <<Line("dmu_tx_assigned", "4", "59"), Line("dmu_tx_delay", "4", "0")>>,
   vdev_cache_stats |-> vdevLines(vdev),
   xuio_stats |-> <<Line("onloan_read_buf", "4", "0")>>,
   zfetchstats |-> <<Line("hits", "4", "5"), Line("misses", "4", "1")>>,
   zil |-> <<Line("zil_commit_count", "4", "11")>>]

arcBase ==
  [throttle |-> "0", c |-> "2048", c_min |-> "1024", c_max |-> "4096",
   size |-> "3000", mfu_size |-> "1024", mru_size |-> "1536"]

ArcChoices ==
  {arcBase,
   [arcBase EXCEPT !.throttle = "7"],
   [arcBase EXCEPT !.mfu_size = "0", !.mru_size = "0"],
   [arcBase EXCEPT !.c_max = "0"]}

vdevBase == [delegations |-> "5", hits |-> "1080", misses |-> "15"]

\* a fault of the input: in the lines of one statistic (a line cut to two
\* fields, a value that is no number, the line missing, the line repeated
\* with other type and value fields) or of a whole file
Faulty(lines, kind, key, n) ==
  LET hit(l) == Fields(l)[1] = key
      change(l) ==
        CASE kind = "short"   -> <<key \o " 4">>
          [] kind = "nonnum"  -> <<Line(key, "4", "xyz")>>
          [] kind = "missing" -> <<>>
          [] kind = "dup"     -> <<l>> \o [j \in 1..n |-> Line(key, "7", ToString(900 + j))]
          [] kind = "dupLow"  -> <<l>> \o [j \in 1..n |-> Line(key, "3", ToString(900 + j))]
  IN  Flatten([i \in 1..Len(lines) |-> IF hit(lines[i]) THEN change(lines[i])
                                       ELSE <<lines[i]>>])

File(lines) == [exists |-> TRUE, lines |-> headerLines \o lines]

Healthy(arc, vdev) == [p \in Paths |-> File(dataLines(arc, vdev)[p])]

LineFaults ==
  {[path |-> "arcstats", key |-> k, kind |-> f, n |-> 1] :
       k \in {"memory_throttle_count", "size", "mru_size"},
       f \in {"short", "nonnum", "missing"}}
    \cup {[path |-> "arcstats", key |-> k, kind |-> f, n |-> j] :
            k \in {"size", "memory_throttle_count"}, f \in {"dup", "dupLow"},
            j \in 1..MaxDup}
    \cup {[path |-> "vdev_cache_stats", key |-> "hits", kind |-> f, n |-> 1] :
            f \in {"short", "nonnum"}}
    \cup {[path |-> "zil", key |-> "zil_commit_count", kind |-> "short", n |-> 1]}

ProcScenarios ==
  {Healthy(a, vdevBase) : a \in ArcChoices}
    \cup {[Healthy(arcBase, vdevBase) EXCEPT
             ![f.path] = File(Faulty(dataLines(arcBase, vdevBase)[f.path],
                                     f.kind, f.key, f.n))] : f \in LineFaults}
    \cup {[Healthy(arcBase, vdevBase) EXCEPT !["zil"] = [exists |-> FALSE, lines |-> <<>>]],
          [Healthy(arcBase, vdevBase) EXCEPT
             !["xuio_stats"] = [exists |-> TRUE, lines |-> <<headerLines[1]>>]]}

tunBase ==
  [dir |-> TRUE, files |-> TRUE, modinfo |-> TRUE,
   params |-> [zfs_arc_max |-> "0", zfs_arc_min |-> "0"],
   descs |-> [zfs_arc_max |-> "Max arc size", zfs_arc_min |-> "Min arc size"]]

TunScenarios ==
  {tunBase, [tunBase EXCEPT !.dir = FALSE], [tunBase EXCEPT !.modinfo = FALSE]}

\* every command line on a healthy system; every faulty /proc input and
\* every faulty tunables input under the command lines that read it
Inputs ==
  {<<a, Healthy(arcBase, vdevBase), tunBase>> : a \in ArgsSet}
    \cup {<<a, p, tunBase>> :
            a \in {x \in ArgsSet : ~x.a /\ ~x.d
                                     /\ x.s \in {"", "arc", "vdev", "zil", "bogus"}},
            p \in ProcScenarios}
    \cup {<<a, Healthy(arcBase, vdevBase), t>> :
            a \in {x \in ArgsSet : ~x.g /\ x.s \in {"", "tunables"}},
            t \in TunScenarios}

Init ==
  /\ pc = "start"
  /\ \E i \in Inputs : args = i[1] /\ procfs = i[2] /\ tunfs = i[3]
  /\ kstats = EmptyMap
  /\ stats = EmptyMap
  /\ stdout = <<>>
  /\ exit = "running"
  /\ loopIdx = 1
  /\ call = NoCall

Spec == Init /\ [][Next]_vars

(***************************************************************************)
(* Single calls.  A formatter, or procSection, is called once on an        *)
(* argument drawn from a bounded set: pc goes from "unit" to "returned"    *)
(* and call holds the name of the function, its arguments and its result.  *)
(***************************************************************************)
\* the values just above and just below each limit that are tried
Window == 66
\* the small values tried: 0..MaxSmall
MaxSmall == 1100
\* the multiples of a fraction of each limit that are tried
MaxStep == 40
\* the small numerators and denominators tried
MaxNum == 24
\* the longest sequence of statistic lines tried
MaxLines == 3

NoArgs == [g |-> FALSE, r |-> FALSE, a |-> FALSE, d |-> FALSE, s |-> ""]

\* main is not running
Idle ==
  /\ pc = "unit"
  /\ args = NoArgs
  /\ procfs = EmptyMap
  /\ tunfs = tunBase
  /\ stats = EmptyMap
  /\ stdout = <<>>
  /\ exit = "running"
  /\ loopIdx = 1

Return(res) ==
  /\ pc' = "returned"
  /\ call' = [call EXCEPT !.res = res]
  /\ UNCHANGED <<inputs, kstats, stdout, exit, loopIdx>>

\* the numbers within Window of a limit l, and those below 2^64
Around(l) ==
  {BAdd(l, BFromInt(d)) : d \in 0..Window} \cup {BSub(l, BFromInt(d)) : d \in 1..Window}

BelowTwo64 == {BSub(Two64, BFromInt(d)) : d \in 1..Window}

SmallStrings == {ToString(n) : n \in 0..MaxSmall}

\* decimal strings of numbers around the limits 2^(10*i), at the top of
\* uint64, and at the quarters of the limits (where tenths tie)
ByteStrings ==
  SmallStrings
    \cup {FormatUint(v) : v \in UNION {Around(BShl(<<1>>, 10 * i)) : i \in 1..6}}
    \cup {FormatUint(v) : v \in BelowTwo64}
    \cup {FormatUint(BShl(BFromInt(q), 10 * i - 2)) : q \in 4..MaxStep, i \in 1..6}

\* decimal strings of numbers around the limits 10^(3*i), at the top of
\* uint64, and at the twentieths of the limits (where tenths tie)
HitStrings ==
  SmallStrings
    \cup {FormatUint(v) : v \in UNION {Around(BPow(10, 3 * i)) : i \in 1..6}}
    \cup {FormatUint(v) : v \in BelowTwo64}
    \cup {FormatUint(BMulAdd(BPow(10, 3 * i - 2), 5 * q, 0)) : q \in 20..MaxStep, i \in 1..6}

\* other spellings of a number that strconv.ParseUint accepts with base 0,
\* each with the decimal string of the number
Spellings ==
  {<<"0x3ff", "1023">>, <<"0X10", "16">>, <<"0777", "511">>, <<"00", "0">>,
   <<"0x400", "1024">>, <<"01750", "1000">>}

\* strings that are no uint64
NoUints == {"", "xyz", "-1", "1.5", "12a", "0x", "089", "18446744073709551616"}

StringArgs(strs) ==
  strs \cup {p[1] : p \in Spellings} \cup NoUints

InitBytes ==
  /\ Idle
  /\ kstats = EmptyMap
  /\ \/ \E s \in StringArgs(ByteStrings) :
          call = [fn |-> "fBytes", arg |-> <<s>>, res |-> Ok("")]
     \/ \E s \in ByteStrings :
          call = [fn |-> "formatBytes", arg |-> <<s>>, res |-> Ok("")]

CallFBytes ==
  /\ pc = "unit" /\ call.fn = "fBytes"
  /\ Return(fBytes(call.arg[1]))
  /\ UNCHANGED stats

\* formatBytes takes the number its argument string denotes
CallFormatBytes ==
  /\ pc = "unit" /\ call.fn = "formatBytes"
  /\ Return(Ok(formatBytes(DigitsValue(call.arg[1], 10))))
  /\ UNCHANGED stats

NextBytes == CallFBytes \/ CallFormatBytes

SpecBytes == InitBytes /\ [][NextBytes]_vars

InitHits ==
  /\ Idle
  /\ kstats = EmptyMap
  /\ \/ \E s \in StringArgs(HitStrings) :
          call = [fn |-> "fHits", arg |-> <<s>>, res |-> Ok("")]
     \/ \E s \in HitStrings :
          call = [fn |-> "formatHits", arg |-> <<s>>, res |-> Ok("")]

CallFHits ==
  /\ pc = "unit" /\ call.fn = "fHits"
  /\ Return(fHits(call.arg[1]))
  /\ UNCHANGED stats

\* formatHits takes the number its argument string denotes
CallFormatHits ==
  /\ pc = "unit" /\ call.fn = "formatHits"
  /\ Return(Ok(formatHits(DigitsValue(call.arg[1], 10))))
  /\ UNCHANGED stats

NextHits == CallFHits \/ CallFormatHits

SpecHits == InitHits /\ [][NextHits]_vars

\* decimal strings of unsigned 64-bit integers: small ones, the values of
\* the healthy statistics, and large ones that float64 cannot hold exactly
PercUints ==
  {ToString(n) : n \in 0..MaxNum}
    \cup {"50", "200", "1000", "3000", "4096", "999999",
          "67701261041601039", "908741758947664976"}
    \cup {FormatUint(v) : v \in {MaxUint64, BSub(MaxUint64, <<1>>),
                                 BAdd(BShl(<<1>>, 53), <<1>>),
                                 BAdd(BShl(<<1>>, 63), <<1>>),
                                 BSub(BPow(10, 18), <<1>>)}}

\* other strings strconv.ParseFloat accepts, and strings it rejects
PercFloats == {"1.5", "-1", "+3", ".5", "5.", "-0", "0.0", "-3", "007"}
PercJunk == {"", "xyz", "12a", "1.2.3", "-", "."}

PercStrings == PercUints \cup PercFloats \cup PercJunk

InitPerc ==
  /\ Idle
  /\ kstats = EmptyMap
  /\ \E upper \in PercStrings, lower \in PercStrings :
       call = [fn |-> "fPerc", arg |-> <<upper, lower>>, res |-> Ok("")]

CallFPerc ==
  /\ pc = "unit" /\ call.fn = "fPerc"
  /\ Return(fPerc(call.arg[1], call.arg[2]))
  /\ UNCHANGED stats

NextPerc == CallFPerc

SpecPerc == InitPerc /\ [][NextPerc]_vars

\* a statistic line in one of its layouts: fields apart by spaces, or by
\* tabs with leading and trailing space and a fourth field; a short line
\* has no value field
StatLine(l) ==
  IF l.short THEN l.name \o " " \o l.type
  ELSE IF l.type = "4" THEN Line(l.name, l.type, l.value)
  ELSE " " \o l.name \o "\t" \o l.type \o "\t\t" \o l.value \o "\t9 "

StatLines ==
  [name : {"hits", "misses"}, type : {"4", "7"}, value : {"0", "15"}, short : {FALSE}]
    \cup {[name |-> "hits", type |-> "4", value |-> "", short |-> TRUE]}

SeqsUpTo(S, n) == UNION {[1..k -> S] : k \in 0..n}

InitProc ==
  /\ Idle
  /\ \E ls \in SeqsUpTo(StatLines, MaxLines) :
       /\ call = [fn |-> "procSection", arg |-> ls, res |-> Ok("")]
       /\ kstats = [arcstats |-> [i \in 1..Len(ls) |-> StatLine(ls[i])]]

\* procSection("arcstats", m) on a fresh map m, which main keeps in stats
procReturn(r) ==
  /\ stats' = r.m
  /\ Return([ok |-> r.fail = "", s |-> r.fail])

CallProcSection ==
  /\ pc = "unit" /\ call.fn = "procSection"
  /\ procReturn(procSection(kstats, "arcstats"))

NextProc == CallProcSection

SpecProc == InitProc /\ [][NextProc]_vars

(***************************************************************************)
(* Single reports.  printARC, printVDEV or printGraphic is called once on  *)
(* the maps getKstats builds from files in order; call.arg[1] holds the    *)
(* raw values of the statistics the report reads.                          *)
(***************************************************************************)
\* the small counters tried: 0..MaxPart
MaxPart == 3

\* raw texts of memory_throttle_count: "0", other spellings of zero, other
\* numbers, and texts that are no uint64
ThrottleValues ==
  {"0", "00", "000", "0x0", "1", "7", "10", "1000", "-0", "0.0",
   "18446744073709551615"}

\* counters whose sums pass 2^64
BigCounters ==
  {FormatUint(v) : v \in {BShl(<<1>>, 63), BAdd(BShl(<<1>>, 63), BFromInt(1000)),
                          BShl(<<1>>, 62), MaxUint64}}

PartStrings == {ToString(n) : n \in 0..MaxPart} \cup {"15", "1024", "1536"}

ArcReports ==
  {[arcBase EXCEPT !.throttle = t] : t \in ThrottleValues}
    \cup {[arcBase EXCEPT !.mfu_size = f, !.mru_size = r, !.size = s[1], !.c_max = s[2]] :
            f \in PartStrings \cup BigCounters, r \in PartStrings \cup BigCounters,
            s \in {<<"3000", "4096">>, <<"0", "0">>}}

VdevReports ==
  [delegations : {"0", "5", FormatUint(BShl(<<1>>, 63))},
   hits        : PartStrings \cup {"1080"} \cup BigCounters,
   misses      : {"0", "15", FormatUint(BShl(<<1>>, 63)), FormatUint(MaxUint64)}]

\* statistics of the bar: an empty, a partly filled and a full cache
GraphReports ==
  {[arcBase EXCEPT !.c_max = m, !.size = s, !.mfu_size = f, !.mru_size = r] :
     m \in {"0", "70", "4096"},
     s \in {"0", "35", "69", "70", "4000", "4096"},
     f \in {ToString(n) : n \in 0..MaxPart} \cup {"35", "2048", "4096"},
     r \in {"0", "35", "2048"}}

InitReport ==
  /\ pc = "unit"
  /\ args = NoArgs
  /\ tunfs = tunBase
  /\ stats = EmptyMap
  /\ stdout = <<>>
  /\ exit = "running"
  /\ loopIdx = 1
  /\ \/ \E v \in ArcReports :
          /\ call = [fn |-> "printARC", arg |-> <<v>>, res |-> Ok("")]
          /\ procfs = Healthy(v, vdevBase)
     \/ \E v \in VdevReports :
          /\ call = [fn |-> "printVDEV", arg |-> <<v>>, res |-> Ok("")]
          /\ procfs = Healthy(arcBase, v)
     \/ \E v \in GraphReports :
          /\ call = [fn |-> "printGraphic", arg |-> <<v>>, res |-> Ok("")]
          /\ procfs = Healthy(v, vdevBase)
  /\ kstats = getKstats(procfs)

\* a report routine returned r: what it printed, how it ended, its map
reportReturn(r) ==
  /\ stdout' = stdout \o r.out
  /\ exit' = IF r.fail = "" THEN "running" ELSE r.fail
  /\ stats' = r.stats
  /\ pc' = "returned"
  /\ UNCHANGED <<inputs, kstats, loopIdx, call>>

CallPrintARC ==
  /\ pc = "unit" /\ call.fn = "printARC"
  /\ reportReturn(printARC(kstats))

CallPrintVDEV ==
  /\ pc = "unit" /\ call.fn = "printVDEV"
  /\ reportReturn(printVDEV(kstats))

CallPrintGraphic ==
  /\ pc = "unit" /\ call.fn = "printGraphic"
  /\ reportReturn(printGraphic(kstats))

NextReport == CallPrintARC \/ CallPrintVDEV \/ CallPrintGraphic

SpecReport == InitReport /\ [][NextReport]_vars

(***************************************************************************)
(* Properties.                                                             *)
(***************************************************************************)
Returned(fns) == pc = "returned" /\ call.fn \in fns

\* the number a decimal string denotes
Value(s) == DigitsValue(s, 10)

\* the limits as exact naturals
ExactBytesLimits == [i \in 1..6 |-> BShl(<<1>>, 10 * i)]
ExactHitsLimits == [i \in 1..6 |-> BPow(10, 3 * i)]

\* the largest i in 1..6 with limits[i] <= v; 0 when there is none
ExactIndex(v, limits) ==
  LET met == {i \in 1..6 : BLe(limits[i], v)}
  IN  IF met = {} THEN 0 ELSE SetMax(met)

BAbsDiff(x, y) == IF BLe(y, x) THEN BSub(x, y) ELSE BSub(y, x)

\* s is a number with exactly one decimal digit: digits, a point, a digit
OneDecimal(s) ==
  /\ Len(s) >= 3
  /\ Char(s, Len(s) - 1) = "."
  /\ AllDigits(SubSeq(s, 1, Len(s) - 2), 10)
  /\ AllDigits(Char(s, Len(s)), 10)

\* the number of tenths that such a string shows
Tenths(s) == Value(SubSeq(s, 1, Len(s) - 2) \o Char(s, Len(s)))

\* t tenths is n / d rounded to one decimal: no number of tenths is nearer
NearestTenths(t, n, d) ==
  BLe(BMulAdd(BAbsDiff(BMul(t, d), BMulAdd(n, 10, 0)), 2, 0), d)

\* s shows v / limit rounded to one decimal, then sep and unit
ShowsScaled(s, v, limit, tail) ==
  /\ Len(s) > Len(tail)
  /\ SubSeq(s, Len(s) - Len(tail) + 1, Len(s)) = tail
  /\ OneDecimal(SubSeq(s, 1, Len(s) - Len(tail)))
  /\ NearestTenths(Tenths(SubSeq(s, 1, Len(s) - Len(tail))), v, limit)

\* C1: a byte count below 1024 is formatted by fBytes and by formatBytes as
\* its decimal integer followed by " Bytes", without a decimal point,
\* whichever way the string handed to fBytes spells the number.
C1_SmallBytes ==
  /\ (Returned({"fBytes", "formatBytes"})
        /\ call.arg[1] \in {ToString(n) : n \in 0..1023})
       => call.res = Ok(call.arg[1] \o " Bytes")
  /\ \A p \in Spellings :
       (Returned({"fBytes"}) /\ call.arg[1] = p[1] /\ BLt(Value(p[2]), BFromInt(1024)))
         => call.res = Ok(p[2] \o " Bytes")

\* fBytes has returned "1023 Bytes" for the largest count below 1024
C1_Witness ==
  /\ Returned({"fBytes"})
  /\ call.arg = <<"1023">>
  /\ call.res = Ok("1023 Bytes")

\* C2: a byte count v >= 1024 is formatted with the largest unit i in 1..6
\* whose limit 2^(10*i) is at most v, as v / 2^(10*i) with one decimal
\* digit, a space and the unit (so 2^(10*i) gives "1.0 <unit>" and 2^64 - 1
\* gives "16.0 EiB").
C2_ExactUnit ==
  (Returned({"fBytes", "formatBytes"})
     /\ call.arg[1] \in ByteStrings
     /\ ~BLt(Value(call.arg[1]), BFromInt(1024)))
    => /\ call.res.ok
       /\ ShowsScaled(call.res.s, Value(call.arg[1]),
                      ExactBytesLimits[ExactIndex(Value(call.arg[1]), ExactBytesLimits)],
                      " " \o bytesUnits[ExactIndex(Value(call.arg[1]), ExactBytesLimits) + 1])

\* C3: a hit count below 1000 is formatted by fHits and by formatHits as
\* its decimal integer and nothing else: no unit, no point, no padding.
C3_SmallHits ==
  (Returned({"fHits", "formatHits"})
     /\ call.arg[1] \in {ToString(n) : n \in 0..999})
    => call.res = Ok(call.arg[1])

\* C4: a hit count v >= 1000 is formatted with the largest unit i in 1..6
\* whose limit 10^(3*i) is at most v, as v / 10^(3*i) with one decimal
\* digit and the unit letter right after it (so 10^(3*i) gives "1.0<unit>"
\* and 2^64 - 1 gives "18.4E").
C4_ExactUnit ==
  (Returned({"fHits", "formatHits"})
     /\ call.arg[1] \in HitStrings
     /\ ~BLt(Value(call.arg[1]), BFromInt(1000)))
    => /\ call.res.ok
       /\ ShowsScaled(call.res.s, Value(call.arg[1]),
                      ExactHitsLimits[ExactIndex(Value(call.arg[1]), ExactHitsLimits)],
                      hitsUnits[ExactIndex(Value(call.arg[1]), ExactHitsLimits) + 1])

\* the denominators that are numbers and not above zero
NotPositive == {"0", "0.0", "-0", "-3"}

\* C5, as the program has it: fPerc returns the blank placeholder " ", and
\* does not end the process, when the denominator is "0" (or any number
\* not above zero) and the numerator is a string strconv.ParseFloat accepts.
C5_BlankForNumbers ==
  (Returned({"fPerc"})
     /\ call.arg[2] \in NotPositive
     /\ call.arg[1] \in PercUints \cup PercFloats)
    => call.res = Ok(" ")

\* fPerc has returned the placeholder for a number over "0"
C5_Witness ==
  /\ Returned({"fPerc"})
  /\ call.arg = <<"50", "0">>
  /\ call.res = Ok(" ")

\* C5, as stated: with the denominator "0", fPerc returns the blank
\* placeholder for any numerator string whatsoever and never ends the
\* process.
C5_BlankForAnything ==
  (Returned({"fPerc"}) /\ call.arg[2] = "0") => call.res = Ok(" ")

\* the result of fPerc shows t tenths of a percent
ShowsPercent(s) ==
  /\ Len(s) > 2
  /\ SubSeq(s, Len(s) - 1, Len(s)) = " %"
  /\ OneDecimal(SubSeq(s, 1, Len(s) - 2))

PercentTenths(s) == Tenths(SubSeq(s, 1, Len(s) - 2))

\* |t * d - 1000 * n| * 2^51 <= d * 2^50 + 2000 * n: t tenths is within
\* half a tenth, and the relative error 2^-50 of the float64 operations,
\* of 100 * n / d
WithinFloatError(t, n, d) ==
  BLe(BShl(BAbsDiff(BMul(t, d), BMulAdd(n, 1000, 0)), 51),
      BAdd(BShl(d, 50), BMulAdd(n, 2000, 0)))

\* C6, as the program has it: for decimal strings of unsigned 64-bit
\* integers n and d > 0, fPerc returns a number with one decimal digit
\* followed by " %"; the number is 100 * n / d computed in float64, which
\* is 100 * n / d rounded to one decimal when n and d are below 2^39 and
\* is within a relative error of 2^-50 of it otherwise.
C6_PercentInFloat64 ==
  (Returned({"fPerc"})
     /\ call.arg[1] \in PercUints
     /\ call.arg[2] \in PercUints \ {"0"})
    => /\ call.res.ok
       /\ ShowsPercent(call.res.s)
       /\ WithinFloatError(PercentTenths(call.res.s), Value(call.arg[1]),
                           Value(call.arg[2]))
       /\ (BitLen(Value(call.arg[1])) <= 39 /\ BitLen(Value(call.arg[2])) <= 39)
            => NearestTenths(PercentTenths(call.res.s),
                             BMulAdd(Value(call.arg[1]), 100, 0), Value(call.arg[2]))

\* fPerc has returned "25.0 %" for "50" over "200"
C6_Witness ==
  /\ Returned({"fPerc"})
  /\ call.arg = <<"50", "200">>
  /\ call.res = Ok("25.0 %")

\* C6, as stated: for decimal strings of unsigned 64-bit integers n and
\* d > 0, fPerc returns 100 * n / d with one decimal digit and " %".
C6_ExactPercent ==
  (Returned({"fPerc"})
     /\ call.arg[1] \in PercUints
     /\ call.arg[2] \in PercUints \ {"0"})
    => /\ call.res.ok
       /\ ShowsPercent(call.res.s)
       /\ NearestTenths(PercentTenths(call.res.s),
                        BMulAdd(Value(call.arg[1]), 100, 0), Value(call.arg[2]))

\* the eight section names
KnownSections == {"arc", "dmu", "l2arc", "tunables", "vdev", "xuio", "zfetch", "zil"}

\* main has come to the -s option: getKstats has returned, the header is
\* printed, and neither -g nor -r ended the run before
SectionMode == pc = "done" /\ ~args.g /\ ~args.r /\ args.s # "" /\ stdout # <<>>

\* C7: isLegalSection is true for exactly the eight section names, false
\* for the empty string and for names in another case; each name it accepts
\* is a key of sectionCalls, so that main prints the banner and calls the
\* routine, and ends with log.Fatal before the banner for any other name.
C7_LegalSections ==
  /\ isLegalSection(args.s) <=> args.s \in KnownSections
  /\ isLegalSection(args.s) => args.s \in sectionCallNames
  /\ \A s \in {"", "ARC", "Arc", "arcs"} : ~isLegalSection(s)
  /\ SectionMode =>
       IF args.s \in KnownSections
       THEN Len(stdout) >= 2 /\ stdout[2] = Item("banner", <<ToUpper(args.s)>>)
       ELSE exit = "fatal" /\ \A i \in 1..Len(stdout) : stdout[i].fn # "banner"

\* main has refused "ARC", and has run the routine of "zil"
C7_Witness ==
  /\ SectionMode
  /\ \/ args.s = "ARC" /\ exit = "fatal"
     \/ args.s = "zil" /\ exit = "exit0" /\ Len(stdout) = 3

\* the index of the last line of ls with the name k
LastOf(ls, k) == SetMax({i \in 1..Len(ls) : ls[i].name = k})

\* C8: for lines of at least three fields each, procSection builds a map
\* whose keys are the first fields of the lines and that maps each key to
\* the third field of the last line with that name; the type field and the
\* layout of the line do not enter the result.
C8_LastWriteWins ==
  (Returned({"procSection"}) /\ \A i \in 1..Len(call.arg) : ~call.arg[i].short)
    => /\ call.res.ok
       /\ DOMAIN stats = {call.arg[i].name : i \in 1..Len(call.arg)}
       /\ \A k \in DOMAIN stats : stats[k] = call.arg[LastOf(call.arg, k)].value

\* a name came twice with other type and value, and the later value stays
C8_Witness ==
  /\ Returned({"procSection"})
  /\ Len(call.arg) = 3
  /\ call.arg[1].name = call.arg[3].name
  /\ call.arg[1].type # call.arg[3].type
  /\ call.arg[1].value # call.arg[3].value
  /\ stats[call.arg[3].name] = call.arg[3].value

\* C9: on a system whose statistics and tunables are in order, with any of
\* the flags -g, -r, -a, -d, when -s names a string that is no known
\* section the run ends in a fatal error and nothing (header, raw dump,
\* graphic, section output) was written before it.
C9_NothingBeforeUsageError ==
  (pc = "done" /\ args.s # "" /\ args.s \notin KnownSections
     /\ procfs = Healthy(arcBase, vdevBase) /\ tunfs = tunBase)
    => exit = "fatal" /\ stdout = <<>>

\* a data line of a statistics file with fewer than three fields, or a
\* statistic the report needs as a number that is missing or no uint64
NeededNumbers ==
  [arcstats |-> {"memory_throttle_count", "size", "c", "c_min", "c_max",
                 "mfu_size", "mru_size"},
   vdev_cache_stats |-> {"delegations", "misses", "hits"}]

ShortLineIn(fs) ==
  \E p \in Paths :
    /\ fs[p].exists
    /\ \E i \in 3..Len(fs[p].lines) : Len(Fields(fs[p].lines[i])) < 3

BadNumberIn(fs) ==
  \E p \in DOMAIN NeededNumbers : \E k \in NeededNumbers[p] :
    /\ fs[p].exists
    /\ \A i \in 3..Len(fs[p].lines) :
         LET f == Fields(fs[p].lines[i])
         IN  (Len(f) >= 3 /\ f[1] = k) => ~ParseUint(f[3]).ok

\* C10: in every display mode, a run that meets a statistic line of fewer
\* than three fields, or a missing or non-numeric value where a number is
\* needed, and aborts, has written nothing before the abort: no header, no
\* earlier section, no earlier field of the section.
C10_NothingBeforeAbort ==
  (pc = "done" /\ exit \in {"fatal", "panic"}
     /\ args.s \in KnownSections \cup {""}
     /\ (ShortLineIn(procfs) \/ BadNumberIn(procfs)))
    => stdout = <<>>

\* a report routine has returned
Reported(fn) == pc = "returned" /\ call.fn = fn

\* the rows a report printed with the helper fn under the message msg
Rows(fn, msg) ==
  {i \in 1..Len(stdout) : stdout[i].fn = fn /\ stdout[i].a[1] = msg}

\* C11: the ARC report prints the health flag in its first row, and the
\* flag is "HEALTHY" when the raw text of memory_throttle_count is "0" and
\* "THROTTLED" for every other text, other spellings of zero included.
C11_HealthFlag ==
  Reported("printARC")
    => /\ stdout # <<>>
       /\ stdout[1] = Item("prtL1",
                           <<"ARC summary:",
                             IF call.arg[1].throttle = "0" THEN "HEALTHY"
                             ELSE "THROTTLED">>)
       /\ Rows("prtL1", "ARC summary:") = {1}

\* the report showed "THROTTLED" for the counter text "00", and went on
C11_Witness ==
  /\ Reported("printARC")
  /\ call.arg[1].throttle = "00"
  /\ stdout[1] = Item("prtL1", <<"ARC summary:", "THROTTLED">>)
  /\ exit = "running"

\* the percentage in the row msg is 100 * n / sum, as fPerc shows it
PercentOfSum(msg, n, sum) ==
  /\ Cardinality(Rows("prtL2p", msg)) = 1
  /\ \A i \in Rows("prtL2p", msg) :
       /\ ShowsPercent(stdout[i].a[2])
       /\ WithinFloatError(PercentTenths(stdout[i].a[2]), n, sum)

\* C12: in the ARC report, for unsigned 64-bit mfu_size and mru_size that
\* are not both zero, the MFU row shows 100 * mfu_size / (mfu_size +
\* mru_size) and the MRU row 100 * mru_size / (mfu_size + mru_size),
\* whatever size and c_max are.
C12_SumDenominator ==
  (Reported("printARC") /\ call.arg[1].throttle = "0"
     /\ BAdd(Value(call.arg[1].mfu_size), Value(call.arg[1].mru_size)) # <<>>)
    => /\ PercentOfSum("Most Frequently Used (MFU) cache size:",
                       Value(call.arg[1].mfu_size),
                       BAdd(Value(call.arg[1].mfu_size), Value(call.arg[1].mru_size)))
       /\ PercentOfSum("Most Recently Used (MRU) cache size:",
                       Value(call.arg[1].mru_size),
                       BAdd(Value(call.arg[1].mfu_size), Value(call.arg[1].mru_size)))

\* the sum of the three counters of the VDEV report
VdevSum(v) == BAdd(BAdd(Value(v.hits), Value(v.misses)), Value(v.delegations))

\* the row msg shows the blank placeholder as its ratio
BlankRatio(msg) ==
  /\ Cardinality(Rows("prtL2p", msg)) = 1
  /\ \A i \in Rows("prtL2p", msg) : stdout[i].a[2] = " "

\* C13: in the VDEV report, for unsigned 64-bit hits, misses and
\* delegations, each of the three ratios is 100 * its counter / (hits +
\* misses + delegations), and all three are the blank placeholder when
\* that sum is zero.
C13_RatiosOfSum ==
  Reported("printVDEV")
    => IF VdevSum(call.arg[1]) = <<>>
       THEN /\ BlankRatio("Cache hits:")
            /\ BlankRatio("Cache misses:")
            /\ BlankRatio("Cache delegations:")
       ELSE /\ PercentOfSum("Cache hits:", Value(call.arg[1].hits),
                            VdevSum(call.arg[1]))
            /\ PercentOfSum("Cache misses:", Value(call.arg[1].misses),
                            VdevSum(call.arg[1]))
            /\ PercentOfSum("Cache delegations:", Value(call.arg[1].delegations),
                            VdevSum(call.arg[1]))

\* the row msg shows count, as fHits formats it, next to its ratio
ShowsCount(msg, count) ==
  /\ Cardinality(Rows("prtL2p", msg)) = 1
  /\ \A i \in Rows("prtL2p", msg) : stdout[i].a[3] = count.s

\* C14: each row of the VDEV report shows the formatted count of its own
\* counter: "Cache hits" the hits, "Cache misses" the misses, "Cache
\* delegations" the delegations.
C14_OwnCounter ==
  Reported("printVDEV")
    => /\ ShowsCount("Cache hits:", fHits(call.arg[1].hits))
       /\ ShowsCount("Cache misses:", fHits(call.arg[1].misses))
       /\ ShowsCount("Cache delegations:", fHits(call.arg[1].delegations))

\* the number shown before a unit of n characters is at least 1.0 and
\* below limit tenths
ShownBelow(s, n, limit) ==
  /\ Len(s) > n
  /\ OneDecimal(SubSeq(s, 1, Len(s) - n))
  /\ BLe(BFromInt(10), Tenths(SubSeq(s, 1, Len(s) - n)))
  /\ BLt(Tenths(SubSeq(s, 1, Len(s) - n)), BFromInt(limit))

\* C15: for a byte count of 1024 or more the number shown before the unit
\* is at least 1.0 and below 1024.0, and for a hit count of 1000 or more
\* it is at least 1.0 and below 1000.0: rounding never shows "1024.0" or
\* "1000.0" for a count just under the limit of the next unit.
C15_BelowNextLimit ==
  /\ (Returned({"fBytes", "formatBytes"})
        /\ call.arg[1] \in ByteStrings
        /\ ~BLt(Value(call.arg[1]), BFromInt(1024)))
       => call.res.ok /\ ShownBelow(call.res.s, 4, 10240)
  /\ (Returned({"fHits", "formatHits"})
        /\ call.arg[1] \in HitStrings
        /\ ~BLt(Value(call.arg[1]), BFromInt(1000)))
       => call.res.ok /\ ShownBelow(call.res.s, 1, 10000)

\* the statistics of the bar are in order: c_max > 0, size <= c_max and
\* mfu_size + mru_size <= size
BarInOrder(v) ==
  /\ Value(v.c_max) # <<>>
  /\ BLe(Value(v.size), Value(v.c_max))
  /\ BLe(BAdd(Value(v.mfu_size), Value(v.mru_size)), Value(v.size))

\* C16: for statistics in order, printGraphic draws the bar without a
\* panic, and the 'F', 'R' and 'O' characters of the bar are together at
\* most graphWidth - 2 = 68.
C16_BarFits ==
  (Reported("printGraphic") /\ BarInOrder(call.arg[1]))
    => /\ exit = "running"
       /\ \E i \in 1..Len(stdout) :
            /\ stdout[i].fn = "bar"
            /\ BLe(BAdd(BAdd(Value(stdout[i].a[1]), Value(stdout[i].a[2])),
                        Value(stdout[i].a[3])),
                   BFromInt(graphWidth - 2))

=============================================================================
